---- MODULE Spec2Model ----
(***************************************************************************)
(* Interaction state of the column-level lineage graph, as kept by         *)
(* LineageFlowProvider (web/client/src/library/pages/root/Page.tsx):       *)
(* the active-edge index, the connections cache and the two mutators       *)
(* addActiveEdges / removeActiveEdges that the hover handlers call, the    *)
(* selection overlay with its memoized views, and the navigation of the    *)
(* errors page (web/client/src/library/pages/errors/Errors.tsx).           *)
(*                                                                         *)
(* A JavaScript Map is a function whose DOMAIN is the key set; an Array    *)
(* is a sequence; an edge [left, right] is the tuple <<left, right>>.      *)
(***************************************************************************)
EXTENDS Integers, Sequences, FiniteSets, TLC

\* Longest batch (edges: Array<[string, string]>) a caller passes.
MaxBatch == 2

\* Connector ids (the strings toID produces) the callers use.
Connectors == {"a", "b", "c"}

\* The [left, right] pairs the callers pass: two pairs with the same left
\* component, two with the same right component, one that continues another
\* (<<"a", "b">>, <<"b", "c">>) and one whose two components are the same
\* connector.
EdgePairs == {<<"a", "b">>, <<"a", "c">>, <<"b", "c">>, <<"a", "a">>}

RECURSIVE SeqsUpTo(_, _)
SeqsUpTo(S, n) ==
  IF n = 0 THEN {<<>>}
  ELSE LET shorter == SeqsUpTo(S, n - 1)
       IN  shorter \cup {Append(s, x) : s \in {t \in shorter : Len(t) = n - 1}, x \in S}

\* The batches a caller may pass to addActiveEdges / removeActiveEdges.
Batches == SeqsUpTo(EdgePairs, MaxBatch)

\* A value of the connections cache: {left: string[], right: string[]}.
ConnectionsOf(k) == [left |-> <<k>>, right |-> <<>>]

\* The maps a caller may hand to setConnections.
ConnectionsInputs ==
  {[k \in K |-> ConnectionsOf(k)] : K \in SUBSET Connectors}

EmptyMap == [k \in {} |-> <<>>]

\* Node ids (model names) of the lineage graph.
Nodes == {"A", "B"}

\* What JavaScript yields for a key that is not there.
Undefined == "undefined"

\* The Sets a caller may hand to setSelectedNodes, in insertion order.
SelectedNodesInputs == {<<>>, <<"A">>, <<"B", "A">>}

\* The records a caller may hand to setNodeConnections: node id -> the list the
\* analyzer computed for it. The second has no entry for "B".
NodesConnectionsInputs ==
  {[n \in Nodes |-> IF n = "A" THEN <<"B">> ELSE <<"A">>],
   [n \in {"A"} |-> <<"B", "C">>],
   EmptyMap}

\* The records a caller may hand to setHighlightedNodes.
HighlightedNodesInputs == {EmptyMap, [n \in {"A"} |-> <<"main", "impacted">>]}

\* manuallySelectedColumn: undefined, or a [model, column] pair.
NoColumn == [defined |-> FALSE, model |-> "", column |-> ""]

ManuallySelectedColumnInputs ==
  {NoColumn, [defined |-> TRUE, model |-> "A", column |-> "x"]}

\* The Sets a caller may hand to setActiveNodes.
ActiveNodesInputs == {{}, {"A"}}

\* The batches the hover handlers pass while the views are exercised.
ViewBatches == {<<p>> : p \in {<<"a", "b">>, <<"a", "c">>}}

\* EnumSide.Left and EnumSide.Right.
Sides == {"left", "right"}

\* The models and the column names the renderer asks isActiveColumn about.
ColumnModels == {"A", "B"}

ColumnNames == {"x", "y"}

\* toID(side, modelName, columnName): the connector id of one side of a column.
toID(side, modelName, columnName) == side \o ":" \o modelName \o "." \o columnName

\* The pairs of column connectors the hover handlers trace.
ColumnPairs ==
  {<<toID("left", "A", "x"), toID("right", "B", "y")>>,
   <<toID("left", "A", "x"), toID("right", "B", "x")>>,
   <<toID("left", "B", "x"), toID("right", "A", "x")>>}

ColumnBatches == SeqsUpTo(ColumnPairs, MaxBatch)

\* The batches the handlers are called with inside one event turn.
TurnBatches == {<<<<"a", "b">>>>, <<<<"a", "c">>>>, <<<<"a", "b">>, <<"a", "c">>>>}

\* The most state updates one event turn queues on one hook before React renders.
MaxPending == 2

\* Pairs of which two have the same right connector, which a third has as
\* its left: a removal can leave two entries of one list standing.
OrderPairs == {<<"a", "c">>, <<"b", "c">>, <<"c", "a">>}

OrderBatches == SeqsUpTo(OrderPairs, MaxBatch)

\* The ids of the errors the IDE may report, and the errors themselves.
ErrorIds == {"e1", "e2", "e3"}

ErrorsUniverse == {[id |-> i] : i \in ErrorIds}

\* EnumRoutes.Errors.
RouteErrors == "/errors"

\* The connectors a batch names.
Endpoints(edges) == {edges[i][j] : i \in 1..Len(edges), j \in 1..2}

VARIABLES
  activeEdges,   \* useState<ActiveEdges>: connector id -> array of [left, right]
  connections,   \* useState<Map<string, Connections>>
  lastCall,      \* the mutator call handled in the current event turn: [op, edges]
  before,        \* activeEdges and connections as they were when that call began
  snapshot,      \* the containers a reader of the context value holds on to
  selectedNodes,            \* useState<SelectedNodes>: [ref, items]
  activeNodes,              \* useState<ActiveNodes>
  highlightedNodes,         \* useState<HighlightedNodes>
  manuallySelectedColumn,   \* useState<[ModelSQLMeshModel, Column]>()
  nodesConnections,         \* useState<Record<string, ConnectedNode>>: [ref, entries]
  connectedNodes,           \* useMemo: [deps, value, instance]
  selectedEdges,            \* useMemo: [deps, value, instance]
  everAdded,     \* history: the connectors named by some addActiveEdges call so far
  pendingActiveEdges,   \* the update queue of the activeEdges hook: [op, edges, applied]
  pendingConnections,   \* the update queue of the connections hook: batches to delete
  inCallOrder,   \* history: the index with every call so far applied, one after another
  errors,        \* useIDE().errors: the errors in insertion order
  route,         \* the location the router was last sent to
  lastDelete     \* history: the id handleDelete was last asked for, and what it did

\* The state slices the selection and highlight setters write.
overlay == <<selectedNodes, activeNodes, highlightedNodes, manuallySelectedColumn,
             nodesConnections>>

\* The memoized views.
views == <<connectedNodes, selectedEdges>>

\* The update queues of the two hooks the handlers write.
queues == <<pendingActiveEdges, pendingConnections>>

\* The state of the errors page.
errorsPage == <<errors, route, lastDelete>>

\* The state of the lineage provider.
lineage == <<activeEdges, connections, lastCall, before, snapshot, overlay, views,
             everAdded, queues, inCallOrder>>

vars == <<lineage, errorsPage>>

NoDelete == [id |-> "", removed |-> FALSE]

NoCall == [op |-> "none", edges |-> <<>>]

NoBefore == [activeEdges |-> EmptyMap, connections |-> EmptyMap]

\* A reader that holds nothing.
NoSnapshot ==
  [held |-> FALSE, activeEdges |-> EmptyMap, lists |-> EmptyMap, connections |-> EmptyMap]

----------------------------------------------------------------------------
\* Map.get(k) ?? []
GetOrEmpty(m, k) == IF k \in DOMAIN m THEN m[k] ELSE <<>>

\* Map.set(k, v)
MapSet(m, k, v) == [x \in DOMAIN m \cup {k} |-> IF x = k THEN v ELSE m[x]]

\* Map.delete(k)
MapDelete(m, k) == [x \in DOMAIN m \ {k} |-> m[x]]

\* list.some(([left, right]) => left === leftConnect && right === rightConnect)
SomeEdge(list, leftConnect, rightConnect) ==
  \E i \in 1..Len(list) : list[i] = <<leftConnect, rightConnect>>

\* addEdge with the right-hand list forgotten (no right.push, no set of rightConnect).
addEdge_LeftOnly(m, leftConnect, rightConnect) ==
  LET left == GetOrEmpty(m, leftConnect)
      edge == <<leftConnect, rightConnect>>
  IN  MapSet(m, leftConnect,
             IF SomeEdge(left, leftConnect, rightConnect) THEN left
             ELSE Append(left, edge))

\* addEdge without the hasDuplicateLeft / hasDuplicateRight tests.
addEdge_NoDuplicateCheck(m, leftConnect, rightConnect) ==
  LET edge == <<leftConnect, rightConnect>>
      sameArray == leftConnect = rightConnect /\ leftConnect \in DOMAIN m
      left == GetOrEmpty(m, leftConnect)
      right == GetOrEmpty(m, rightConnect)
  IN  IF sameArray
      THEN MapSet(m, leftConnect, Append(Append(left, edge), edge))
      ELSE MapSet(MapSet(m, leftConnect, Append(left, edge)),
                  rightConnect, Append(right, edge))

\* The body of edges.forEach in addActiveEdges, for one [leftConnect, rightConnect].
\* When leftConnect = rightConnect and the key exists, `left` and `right` are the
\* same Array object: both duplicate tests run before either push, and both
\* pushes land in that one array.
addEdge(m, leftConnect, rightConnect) ==
  LET left == GetOrEmpty(m, leftConnect)
      right == GetOrEmpty(m, rightConnect)
      hasDuplicateLeft == SomeEdge(left, leftConnect, rightConnect)
      hasDuplicateRight == SomeEdge(right, leftConnect, rightConnect)
      edge == <<leftConnect, rightConnect>>
      sameArray == leftConnect = rightConnect /\ leftConnect \in DOMAIN m
      left1 == IF hasDuplicateLeft THEN left ELSE Append(left, edge)
      shared == IF hasDuplicateRight THEN left1 ELSE Append(left1, edge)
      right1 == IF hasDuplicateRight THEN right ELSE Append(right, edge)
  IN  IF sameArray
      THEN MapSet(m, leftConnect, shared)
      ELSE MapSet(MapSet(m, leftConnect, left1), rightConnect, right1)

\* The updater addActiveEdges hands to setActiveEdges: forEach in array order,
\* then new Map(activeEdges).
RECURSIVE addActiveEdgesUpdater(_, _)
addActiveEdgesUpdater(m, edges) ==
  IF edges = <<>> THEN m
  ELSE addActiveEdgesUpdater(addEdge(m, Head(edges)[1], Head(edges)[2]), Tail(edges))

\* The filter predicate of removeActiveEdges: e => e[0] !== left && e[1] !== right
keepsEdge(e, left, right) == e[1] # left /\ e[2] # right

\* A filter that hands back the surviving entries last to first.
RECURSIVE Filter_Reversed(_, _, _)
Filter_Reversed(list, left, right) ==
  IF list = <<>> THEN <<>>
  ELSE Filter_Reversed(Tail(list), left, right)
         \o (IF keepsEdge(Head(list), left, right) THEN <<Head(list)>> ELSE <<>>)

\* Array.filter
RECURSIVE Filter(_, _, _)
Filter(list, left, right) ==
  IF list = <<>> THEN <<>>
  ELSE IF keepsEdge(Head(list), left, right)
       THEN <<Head(list)>> \o Filter(Tail(list), left, right)
       ELSE Filter(Tail(list), left, right)

\* removeEdge with the right-hand list left as it was.
removeEdge_LeftOnly(m, left, right) ==
  MapSet(m, left, Filter(GetOrEmpty(m, left), left, right))

\* removeEdge that writes the left-hand list under both keys.
removeEdge_SetsLeftListTwice(m, left, right) ==
  LET edgesLeft == Filter(GetOrEmpty(m, left), left, right)
  IN  MapSet(MapSet(m, left, edgesLeft), right, edgesLeft)

\* removeEdge that drops a key whose list came out empty.
removeEdge_DeletesEmptyKeys(m, left, right) ==
  LET edgesLeft == Filter(GetOrEmpty(m, left), left, right)
      edgesRight == Filter(GetOrEmpty(m, right), left, right)
      written == MapSet(MapSet(m, left, edgesLeft), right, edgesRight)
  IN  [k \in {x \in DOMAIN written : written[x] # <<>>} |-> written[k]]

\* The body of edges.forEach in removeActiveEdges' first updater.
removeEdge(m, left, right) ==
  LET edgesLeft == Filter(GetOrEmpty(m, left), left, right)
      edgesRight == Filter(GetOrEmpty(m, right), left, right)
  IN  MapSet(MapSet(m, left, edgesLeft), right, edgesRight)

RECURSIVE removeActiveEdgesUpdater(_, _)
removeActiveEdgesUpdater(m, edges) ==
  IF edges = <<>> THEN m
  ELSE removeActiveEdgesUpdater(removeEdge(m, Head(edges)[1], Head(edges)[2]),
                                Tail(edges))

\* deleteConnections with connections.delete(right) forgotten.
deleteConnections_LeftOnly(c, left, right) == MapDelete(c, left)

\* deleteConnections that empties the whole cache.
deleteConnections_ClearsAll(c, left, right) == EmptyMap

\* The body of edges.forEach in removeActiveEdges' second updater.
deleteConnections(c, left, right) == MapDelete(MapDelete(c, left), right)

RECURSIVE removeConnectionsUpdater(_, _)
removeConnectionsUpdater(c, edges) ==
  IF edges = <<>> THEN c
  ELSE removeConnectionsUpdater(deleteConnections(c, Head(edges)[1], Head(edges)[2]),
                                Tail(edges))

----------------------------------------------------------------------------
\* What the Map object a reader took from the context is after the first updater
\* of a mutator ran: both updaters call activeEdges.set on the Map they are given
\* (the state object itself) before copying it, so the held Map has the new
\* entries.
heldActiveEdges(s, new) == IF s.held THEN new ELSE s.activeEdges

\* What the Array objects a reader took from that Map are after addActiveEdges:
\* left.push / right.push append to the arrays already in the Map.
heldListsAfterAdd(s, new) ==
  IF s.held THEN [k \in DOMAIN s.lists |-> new[k]] ELSE s.lists

\* What the connections Map a reader took is after removeActiveEdges:
\* connections.delete acts on the state object before it is copied.
heldConnections(s, new) == IF s.held THEN new ELSE s.connections

\* An object a caller built for a setter is a new object: its reference differs
\* from the one the state holds. The provider renders after every setter, so two
\* values tell the state's object from the one it replaces.
NewRef(ref) == 1 - ref

\* useMemo with an empty dependency list: the first value is kept for ever.
useMemo_EmptyDeps(memo, deps, value) == memo

\* useMemo that computes on every render.
useMemo_NoDeps(memo, deps, value) ==
  [deps |-> deps, value |-> value, instance |-> 1 - memo.instance]

\* useMemo(() => value, deps): the memoized instance is kept while every
\* dependency is the same object as at the render that computed it.
useMemo(memo, deps, value) ==
  IF memo.deps = deps THEN memo
  ELSE [deps |-> deps, value |-> value, instance |-> 1 - memo.instance]

\* new Set(Object.keys(nodesConnections))
keysOf(record) == DOMAIN record.entries

\* id => nodesConnections[id]! : the entry, or undefined when there is none.
lookupNode(record, id) ==
  IF id \in DOMAIN record.entries
  THEN [defined |-> TRUE, items |-> record.entries[id]]
  ELSE [defined |-> FALSE, items |-> <<>>]

\* Array.prototype.flat(): an element that is an array is replaced by its
\* elements, any other element (undefined too) stays.
RECURSIVE flat(_)
flat(array) ==
  IF array = <<>> THEN <<>>
  ELSE (IF Head(array).defined THEN Head(array).items ELSE <<Undefined>>)
         \o flat(Tail(array))

\* Array.from(selectedNodes).map(id => nodesConnections[id]!).flat()
flatSelectedEdges(record, selected) ==
  flat([i \in 1..Len(selected.items) |-> lookupNode(record, selected.items[i])])

\* The provider's render after a state change: the two useMemo hooks.
renderViews ==
  /\ connectedNodes' =
       useMemo(connectedNodes, <<nodesConnections'.ref>>, keysOf(nodesConnections'))
  /\ selectedEdges' =
       useMemo(selectedEdges, <<nodesConnections'.ref, selectedNodes'.ref>>,
               flatSelectedEdges(nodesConnections', selectedNodes'))

\* A provider whose active-node set starts with a node in it.
Init_WithActiveNode ==
  /\ activeEdges = EmptyMap
  /\ connections = EmptyMap
  /\ lastCall = NoCall
  /\ before = NoBefore
  /\ snapshot = NoSnapshot
  /\ selectedNodes = [ref |-> 0, items |-> <<>>]
  /\ activeNodes = {"A"}
  /\ highlightedNodes = EmptyMap
  /\ manuallySelectedColumn = NoColumn
  /\ nodesConnections = [ref |-> 0, entries |-> EmptyMap]
  /\ connectedNodes = [deps |-> <<0>>, value |-> {}, instance |-> 0]
  /\ selectedEdges = [deps |-> <<0, 0>>, value |-> <<>>, instance |-> 0]
  /\ everAdded = {}
  /\ pendingActiveEdges = <<>>
  /\ pendingConnections = <<>>
  /\ inCallOrder = EmptyMap
  /\ errors = <<>>
  /\ route = RouteErrors
  /\ lastDelete = NoDelete

Init ==
  /\ activeEdges = EmptyMap
  /\ connections = EmptyMap
  /\ lastCall = NoCall
  /\ before = NoBefore
  /\ snapshot = NoSnapshot
  /\ selectedNodes = [ref |-> 0, items |-> <<>>]
  /\ activeNodes = {}
  /\ highlightedNodes = EmptyMap
  /\ manuallySelectedColumn = NoColumn
  /\ nodesConnections = [ref |-> 0, entries |-> EmptyMap]
  /\ connectedNodes = [deps |-> <<0>>, value |-> {}, instance |-> 0]
  /\ selectedEdges = [deps |-> <<0, 0>>, value |-> <<>>, instance |-> 0]
  /\ everAdded = {}
  /\ pendingActiveEdges = <<>>
  /\ pendingConnections = <<>>
  /\ inCallOrder = EmptyMap
  /\ errors = <<>>
  /\ route = RouteErrors
  /\ lastDelete = NoDelete

\* addActiveEdges that also drops the cache entries of the endpoints, as
\* removeActiveEdges does.
addActiveEdges_InvalidatesCache(edges) ==
  /\ UNCHANGED errorsPage
  /\ lastCall = NoCall
  /\ activeEdges' = addActiveEdgesUpdater(activeEdges, edges)
  /\ connections' = removeConnectionsUpdater(connections, edges)
  /\ lastCall' = [op |-> "addActiveEdges", edges |-> edges]
  /\ before' = [activeEdges |-> activeEdges, connections |-> connections]
  /\ snapshot' = [snapshot EXCEPT
                    !.activeEdges = heldActiveEdges(snapshot, activeEdges'),
                    !.lists = heldListsAfterAdd(snapshot, activeEdges')]
  /\ UNCHANGED overlay
  /\ renderViews
  /\ everAdded' = everAdded \cup Endpoints(edges)
  /\ inCallOrder' = activeEdges'
  /\ UNCHANGED queues

addActiveEdges(edges) ==
  /\ UNCHANGED errorsPage
  /\ lastCall = NoCall
  /\ activeEdges' = addActiveEdgesUpdater(activeEdges, edges)
  /\ UNCHANGED connections
  /\ lastCall' = [op |-> "addActiveEdges", edges |-> edges]
  /\ before' = [activeEdges |-> activeEdges, connections |-> connections]
  /\ snapshot' = [snapshot EXCEPT
                    !.activeEdges = heldActiveEdges(snapshot, activeEdges'),
                    !.lists = heldListsAfterAdd(snapshot, activeEdges')]
  /\ UNCHANGED overlay
  /\ renderViews
  /\ everAdded' = everAdded \cup Endpoints(edges)
  /\ inCallOrder' = activeEdges'
  /\ UNCHANGED queues

removeActiveEdges(edges) ==
  /\ UNCHANGED errorsPage
  /\ lastCall = NoCall
  /\ activeEdges' = removeActiveEdgesUpdater(activeEdges, edges)
  /\ connections' = removeConnectionsUpdater(connections, edges)
  /\ lastCall' = [op |-> "removeActiveEdges", edges |-> edges]
  /\ before' = [activeEdges |-> activeEdges, connections |-> connections]
  /\ snapshot' = [snapshot EXCEPT
                    !.activeEdges = heldActiveEdges(snapshot, activeEdges'),
                    !.connections = heldConnections(snapshot, connections')]
  /\ UNCHANGED overlay
  /\ renderViews
  /\ UNCHANGED everAdded
  /\ inCallOrder' = activeEdges'
  /\ UNCHANGED queues

\* The raw state setter, called with a Map the caller built.
setConnections(value) ==
  /\ UNCHANGED errorsPage
  /\ lastCall = NoCall
  /\ connections' = value
  /\ UNCHANGED <<activeEdges, snapshot>>
  /\ lastCall' = [op |-> "setConnections", edges |-> <<>>]
  /\ before' = [activeEdges |-> activeEdges, connections |-> connections]
  /\ UNCHANGED overlay
  /\ renderViews
  /\ UNCHANGED <<everAdded, queues, inCallOrder>>

\* One queued update of the activeEdges hook, run on the state m.
runUpdater(update, m) ==
  IF update.op = "addActiveEdges"
  THEN addActiveEdgesUpdater(m, update.edges)
  ELSE removeActiveEdgesUpdater(m, update.edges)

\* Every queued update computed from the state of the last render, as with
\* setActiveEdges(value) built from a closure: the last one wins.
processQueue_StaleState(m, queue) ==
  IF queue = <<>> \/ queue[Len(queue)].applied THEN m
  ELSE runUpdater(queue[Len(queue)], m)

\* React's render of a hook with queued updates: the updaters run first to
\* last, each on the result of the one before; an update that was computed
\* when it was queued is not run again.
RECURSIVE processQueue(_, _)
processQueue(m, queue) ==
  IF queue = <<>> THEN m
  ELSE processQueue(IF Head(queue).applied THEN m ELSE runUpdater(Head(queue), m),
                    Tail(queue))

RECURSIVE processConnectionsQueue(_, _)
processConnectionsQueue(c, queue) ==
  IF queue = <<>> THEN c
  ELSE processConnectionsQueue(removeConnectionsUpdater(c, Head(queue)), Tail(queue))

\* No update of the provider is waiting for a render.
Idle == pendingActiveEdges = <<>> /\ pendingConnections = <<>>

\* setActiveEdges(updater) inside a turn. When no update waits on the
\* component React may run the updater at once (eagerly computed state), which
\* the caller cannot tell in advance; the updater works in place on the Map
\* of the last render, so what it did shows in that Map. Otherwise it waits.
queueActiveEdges(op, edges) ==
  \E eager \in (IF Idle THEN BOOLEAN ELSE {FALSE}) :
    /\ activeEdges' = IF eager
                      THEN runUpdater([op |-> op, edges |-> edges], activeEdges)
                      ELSE activeEdges
    /\ pendingActiveEdges' =
         Append(pendingActiveEdges, [op |-> op, edges |-> edges, applied |-> eager])

\* addActiveEdges(edges) called inside an event turn: the render comes later.
callAddActiveEdges(edges) ==
  /\ UNCHANGED errorsPage
  /\ lastCall = NoCall
  /\ Len(pendingActiveEdges) < MaxPending
  /\ queueActiveEdges("addActiveEdges", edges)
  /\ inCallOrder' = addActiveEdgesUpdater(inCallOrder, edges)
  /\ everAdded' = everAdded \cup Endpoints(edges)
  /\ UNCHANGED <<connections, pendingConnections, lastCall, before, snapshot,
                 overlay, views>>

\* removeActiveEdges(edges) called inside an event turn: setActiveEdges, then
\* setConnections, which finds the first update waiting and so waits too.
callRemoveActiveEdges(edges) ==
  /\ UNCHANGED errorsPage
  /\ lastCall = NoCall
  /\ Len(pendingActiveEdges) < MaxPending
  /\ queueActiveEdges("removeActiveEdges", edges)
  /\ pendingConnections' = Append(pendingConnections, edges)
  /\ inCallOrder' = removeActiveEdgesUpdater(inCallOrder, edges)
  /\ UNCHANGED <<connections, everAdded, lastCall, before, snapshot, overlay, views>>

\* The render at the end of the turn: both hooks process their queues.
flushUpdates ==
  /\ UNCHANGED errorsPage
  /\ ~Idle
  /\ activeEdges' = processQueue(activeEdges, pendingActiveEdges)
  /\ connections' = processConnectionsQueue(connections, pendingConnections)
  /\ pendingActiveEdges' = <<>>
  /\ pendingConnections' = <<>>
  /\ UNCHANGED overlay
  /\ renderViews
  /\ UNCHANGED <<everAdded, inCallOrder, lastCall, before, snapshot>>

\* A selection setter that also empties the edge index.
setSelectedNodes_ClearsActiveEdges(items) ==
  /\ UNCHANGED errorsPage
  /\ lastCall = NoCall
  /\ selectedNodes' = [ref |-> NewRef(selectedNodes.ref), items |-> items]
  /\ activeEdges' = EmptyMap
  /\ UNCHANGED <<activeNodes, highlightedNodes, manuallySelectedColumn, nodesConnections>>
  /\ UNCHANGED <<connections, snapshot, everAdded, queues, inCallOrder>>
  /\ lastCall' = [op |-> "setSelectedNodes", edges |-> <<>>]
  /\ before' = [activeEdges |-> activeEdges, connections |-> connections]
  /\ renderViews

\* The raw state setters of the overlay, each called with a value the caller built.
setSelectedNodes(items) ==
  /\ UNCHANGED errorsPage
  /\ lastCall = NoCall
  /\ selectedNodes' = [ref |-> NewRef(selectedNodes.ref), items |-> items]
  /\ UNCHANGED <<activeNodes, highlightedNodes, manuallySelectedColumn, nodesConnections>>
  /\ UNCHANGED <<activeEdges, connections, snapshot, everAdded, queues, inCallOrder>>
  /\ lastCall' = [op |-> "setSelectedNodes", edges |-> <<>>]
  /\ before' = [activeEdges |-> activeEdges, connections |-> connections]
  /\ renderViews

setHighlightedNodes(value) ==
  /\ UNCHANGED errorsPage
  /\ lastCall = NoCall
  /\ highlightedNodes' = value
  /\ UNCHANGED <<selectedNodes, activeNodes, manuallySelectedColumn, nodesConnections>>
  /\ UNCHANGED <<activeEdges, connections, snapshot, everAdded, queues, inCallOrder>>
  /\ lastCall' = [op |-> "setHighlightedNodes", edges |-> <<>>]
  /\ before' = [activeEdges |-> activeEdges, connections |-> connections]
  /\ renderViews

setManuallySelectedColumn(value) ==
  /\ UNCHANGED errorsPage
  /\ lastCall = NoCall
  /\ manuallySelectedColumn' = value
  /\ UNCHANGED <<selectedNodes, activeNodes, highlightedNodes, nodesConnections>>
  /\ UNCHANGED <<activeEdges, connections, snapshot, everAdded, queues, inCallOrder>>
  /\ lastCall' = [op |-> "setManuallySelectedColumn", edges |-> <<>>]
  /\ before' = [activeEdges |-> activeEdges, connections |-> connections]
  /\ renderViews

setActiveNodes(value) ==
  /\ UNCHANGED errorsPage
  /\ lastCall = NoCall
  /\ activeNodes' = value
  /\ UNCHANGED <<selectedNodes, highlightedNodes, manuallySelectedColumn, nodesConnections>>
  /\ UNCHANGED <<activeEdges, connections, snapshot, everAdded, queues, inCallOrder>>
  /\ lastCall' = [op |-> "setActiveNodes", edges |-> <<>>]
  /\ before' = [activeEdges |-> activeEdges, connections |-> connections]
  /\ renderViews

setNodeConnections(entries) ==
  /\ UNCHANGED errorsPage
  /\ lastCall = NoCall
  /\ nodesConnections' = [ref |-> NewRef(nodesConnections.ref), entries |-> entries]
  /\ UNCHANGED <<selectedNodes, activeNodes, highlightedNodes, manuallySelectedColumn>>
  /\ UNCHANGED <<activeEdges, connections, snapshot, everAdded, queues, inCallOrder>>
  /\ lastCall' = [op |-> "setNodeConnections", edges |-> <<>>]
  /\ before' = [activeEdges |-> activeEdges, connections |-> connections]
  /\ renderViews

\* The event turn ends: the provider renders with the new state and the reader
\* lets go of what it held.
settle ==
  /\ UNCHANGED errorsPage
  /\ lastCall # NoCall
  /\ lastCall' = NoCall
  /\ before' = NoBefore
  /\ snapshot' = NoSnapshot
  /\ UNCHANGED <<activeEdges, connections, overlay, views, everAdded, queues,
                 inCallOrder>>

\* A consumer of the context reads activeEdges (and the arrays in it) and
\* connections from the provider's value and keeps the references.
readSnapshot ==
  /\ UNCHANGED errorsPage
  /\ lastCall = NoCall
  /\ ~snapshot.held
  /\ snapshot' = [held |-> TRUE, activeEdges |-> activeEdges,
                  lists |-> activeEdges, connections |-> connections]
  /\ UNCHANGED <<activeEdges, connections, lastCall, before, overlay, views,
                 everAdded, queues, inCallOrder>>

Next ==
  \/ \E edges \in Batches : addActiveEdges(edges)
  \/ \E edges \in Batches : removeActiveEdges(edges)
  \/ \E value \in ConnectionsInputs : setConnections(value)
  \/ settle

Spec == Init /\ [][Next]_vars

NextSnapshot == Next \/ readSnapshot

SpecSnapshot == Init /\ [][NextSnapshot]_vars

\* The overlay setters and the hover handlers together.
NextViews ==
  \/ \E edges \in ViewBatches : addActiveEdges(edges)
  \/ \E edges \in ViewBatches : removeActiveEdges(edges)
  \/ \E items \in SelectedNodesInputs : setSelectedNodes(items)
  \/ \E value \in ActiveNodesInputs : setActiveNodes(value)
  \/ \E value \in HighlightedNodesInputs : setHighlightedNodes(value)
  \/ \E value \in ManuallySelectedColumnInputs : setManuallySelectedColumn(value)
  \/ \E entries \in NodesConnectionsInputs : setNodeConnections(entries)
  \/ \E value \in ConnectionsInputs : setConnections(value)
  \/ settle

SpecViews == Init /\ [][NextViews]_vars

\* Event turns that call the handlers several times before React renders.
NextTurn ==
  \/ \E edges \in TurnBatches : callAddActiveEdges(edges)
  \/ \E edges \in TurnBatches : callRemoveActiveEdges(edges)
  \/ flushUpdates
  \/ \E value \in ConnectionsInputs : Idle /\ setConnections(value)
  \/ settle

SpecTurn == Init /\ [][NextTurn]_vars

\* The list the page shows, oldest error first.
listOf_NotReversed(collection) == collection

\* Array.from(errors).reverse(): the newest error first.
listOf(collection) == [i \in 1..Len(collection) |-> collection[Len(collection) + 1 - i]]

\* The effect on [list]: list[0]?.id, and the route built from it.
navigateTarget(list) ==
  IF list = <<>> THEN RouteErrors ELSE RouteErrors \o "/" \o list[1].id

\* removeError of the IDE context: the collection without the error.
RECURSIVE removeError(_, _)
removeError(collection, error) ==
  IF collection = <<>> THEN <<>>
  ELSE IF Head(collection) = error THEN removeError(Tail(collection), error)
  ELSE <<Head(collection)>> \o removeError(Tail(collection), error)

\* The IDE reports an error the collection does not hold; the page renders
\* and its effect navigates.
addError(error) ==
  /\ \A i \in 1..Len(errors) : errors[i] # error
  /\ errors' = Append(errors, error)
  /\ route' = navigateTarget(listOf(errors'))
  /\ UNCHANGED <<lastDelete, lineage>>

\* handleDelete(id): list.find, and removeError only for an error it found.
handleDelete(id) ==
  LET list == listOf(errors)
      found == {i \in 1..Len(list) : list[i].id = id}
  IN /\ IF found # {}
        THEN LET error == list[CHOOSE i \in found : \A j \in found : i <= j]
             IN /\ errors' = removeError(errors, error)
                /\ route' = navigateTarget(listOf(errors'))
                /\ lastDelete' = [id |-> id, removed |-> TRUE]
        ELSE /\ UNCHANGED <<errors, route>>
             /\ lastDelete' = [id |-> id, removed |-> FALSE]
     /\ UNCHANGED lineage

\* The user opens one error of the list: the item's link routes to it.
openError(id) ==
  /\ \E i \in 1..Len(errors) : errors[i].id = id
  /\ route' = RouteErrors \o "/" \o id
  /\ UNCHANGED <<errors, lastDelete, lineage>>

NextErrors ==
  \/ \E error \in ErrorsUniverse : addError(error)
  \/ \E id \in ErrorIds : handleDelete(id)
  \/ \E id \in ErrorIds : openError(id)

SpecErrors == Init /\ [][NextErrors]_vars

\* The hover handlers called with pairs that share connectors both ways.
NextOrder ==
  \/ \E edges \in OrderBatches : addActiveEdges(edges)
  \/ \E edges \in OrderBatches : removeActiveEdges(edges)
  \/ settle

SpecOrder == Init /\ [][NextOrder]_vars

\* The hover handlers called with pairs of column connectors.
NextColumns ==
  \/ \E edges \in ColumnBatches : addActiveEdges(edges)
  \/ \E edges \in ColumnBatches : removeActiveEdges(edges)
  \/ settle

SpecColumns == Init /\ [][NextColumns]_vars

----------------------------------------------------------------------------
(* Queries over the index *)

\* The pair p occurs in the list.
Contains(list, p) == \E i \in 1..Len(list) : list[i] = p

\* The pair p is in the list stored under key k.
StoredUnder(m, k, p) == k \in DOMAIN m /\ Contains(m[k], p)

\* The pair p is in the lists of both of its endpoints.
IsStored(m, p) == StoredUnder(m, p[1], p) /\ StoredUnder(m, p[2], p)

\* How often the pair p occurs in the list.
Occurrences(list, p) == Cardinality({i \in 1..Len(list) : list[i] = p})

\* hasActiveEdge of ./help: the exact pair is in the list of either endpoint.
hasActiveEdge(m, edge) ==
  StoredUnder(m, edge[1], edge) \/ StoredUnder(m, edge[2], edge)

\* hasActiveEdgeConnector of ./help: the connector has at least one incident edge.
hasActiveEdgeConnector(m, connector) == Len(GetOrEmpty(m, connector)) > 0

\* A column whose connector is a key of the index counts as active.
isActiveColumn_HasKey(m, modelName, columnName) ==
  \/ toID("left", modelName, columnName) \in DOMAIN m
  \/ toID("right", modelName, columnName) \in DOMAIN m

\* A column counts as active when any column of its model has an edge.
isActiveColumn_AnyColumn(m, modelName, columnName) ==
  \E c \in ColumnNames :
    \/ hasActiveEdgeConnector(m, toID("left", modelName, c))
    \/ hasActiveEdgeConnector(m, toID("right", modelName, c))

\* isActiveColumn(modelName, columnName), reading the index m of the render
\* that made the callback.
isActiveColumn(m, modelName, columnName) ==
  LET leftConnector == toID("left", modelName, columnName)
      rightConnector == toID("right", modelName, columnName)
  IN \/ hasActiveEdgeConnector(m, leftConnector)
     \/ hasActiveEdgeConnector(m, rightConnector)

\* Some pair stored anywhere in the index has the connector as an endpoint.
HasIncidentEdge(m, connector) ==
  \E k \in DOMAIN m : \E i \in 1..Len(m[k]) :
    m[k][i][1] = connector \/ m[k][i][2] = connector

AfterAdd == lastCall.op = "addActiveEdges"

AfterRemove == lastCall.op = "removeActiveEdges"

----------------------------------------------------------------------------
\* C1: in every state reached by addActiveEdges / removeActiveEdges batches, a
\* pair (l, r) is in the list under key l if and only if it is in the list
\* under key r.
C1_BidirectionalConsistency ==
  \A p \in EdgePairs :
    StoredUnder(activeEdges, p[1], p) <=> StoredUnder(activeEdges, p[2], p)

\* C2: after removeActiveEdges([(l, r)]), every other pair that was stored
\* before the call is still stored under both of its endpoints.
C2_ExactMatchRemoval ==
  (AfterRemove /\ Len(lastCall.edges) = 1) =>
    \A p \in EdgePairs \ {lastCall.edges[1]} :
      IsStored(before.activeEdges, p) => IsStored(activeEdges, p)

\* C3: the active-edge Map, each edge list in it and the connections Map that a
\* reader obtained before a call to addActiveEdges or removeActiveEdges have,
\* after the call, the contents they had before it.
C3_SnapshotsImmutable ==
  (snapshot.held /\ (AfterAdd \/ AfterRemove)) =>
    /\ snapshot.activeEdges = before.activeEdges
    /\ snapshot.lists = before.activeEdges
    /\ snapshot.connections = before.connections

\* C4: no key's list ever holds the same (l, r) pair more than once, the two
\* components of a pair not being assumed distinct.
C4_NoDuplicatePerKey ==
  \A k \in DOMAIN activeEdges : \A p \in EdgePairs :
    Occurrences(activeEdges[k], p) <= 1

\* C5: after addActiveEdges(batch), for every pair (l, r) of the batch the lists
\* under l and under r are non-empty and both contain (l, r), so
\* hasActiveEdgeConnector(l), hasActiveEdgeConnector(r) and hasActiveEdge((l, r))
\* are true.
C5_AddedEdgesPresent ==
  AfterAdd =>
    \A i \in 1..Len(lastCall.edges) :
      LET p == lastCall.edges[i]
      IN  /\ Len(GetOrEmpty(activeEdges, p[1])) > 0
          /\ Len(GetOrEmpty(activeEdges, p[2])) > 0
          /\ StoredUnder(activeEdges, p[1], p)
          /\ StoredUnder(activeEdges, p[2], p)
          /\ hasActiveEdgeConnector(activeEdges, p[1])
          /\ hasActiveEdgeConnector(activeEdges, p[2])
          /\ hasActiveEdge(activeEdges, p)

\* A batch of two different pairs, one of them new, was added to a non-empty index.
C5_Witness ==
  /\ AfterAdd
  /\ Len(lastCall.edges) = 2
  /\ lastCall.edges[1] # lastCall.edges[2]
  /\ \E k \in DOMAIN before.activeEdges : before.activeEdges[k] # <<>>
  /\ \E i \in 1..2 :
       LET p == lastCall.edges[i]
       IN  ~StoredUnder(before.activeEdges, p[1], p)
             /\ ~StoredUnder(before.activeEdges, p[2], p)

\* C6: applying addActiveEdges(batch) a second time to the index that
\* addActiveEdges(batch) produced yields that same index: same keys, same lists.
C6_IdempotentInsert ==
  AfterAdd => addActiveEdgesUpdater(activeEdges, lastCall.edges) = activeEdges

\* The first application changed the index, and the batch holds a pair with equal
\* components whose key was already there (the case of the shared array).
C6_Witness ==
  /\ AfterAdd
  /\ activeEdges # before.activeEdges
  /\ \E i \in 1..Len(lastCall.edges) :
       /\ lastCall.edges[i][1] = lastCall.edges[i][2]
       /\ lastCall.edges[i][1] \in DOMAIN before.activeEdges
       /\ ~StoredUnder(before.activeEdges, lastCall.edges[i][1], lastCall.edges[i])
  /\ addActiveEdgesUpdater(activeEdges, lastCall.edges) = activeEdges

\* C7: removeActiveEdges([(l, r)]) for a pair (l, r) that is not stored leaves
\* hasActiveEdge of every pair and hasActiveEdgeConnector of every connector as
\* they were.
C7_RemoveAbsentIsNoOp ==
  (/\ AfterRemove
   /\ Len(lastCall.edges) = 1
   /\ ~hasActiveEdge(before.activeEdges, lastCall.edges[1])) =>
    /\ \A p \in EdgePairs :
         hasActiveEdge(activeEdges, p) = hasActiveEdge(before.activeEdges, p)
    /\ \A c \in Connectors :
         hasActiveEdgeConnector(activeEdges, c)
           = hasActiveEdgeConnector(before.activeEdges, c)

\* C8: after removeActiveEdges(batch), for every pair (l, r) of the batch neither
\* the list under l nor the list under r contains (l, r), so hasActiveEdge((l, r))
\* is false.
C8_RemovedEdgesAbsent ==
  AfterRemove =>
    \A i \in 1..Len(lastCall.edges) :
      LET p == lastCall.edges[i]
      IN  /\ ~StoredUnder(activeEdges, p[1], p)
          /\ ~StoredUnder(activeEdges, p[2], p)
          /\ ~hasActiveEdge(activeEdges, p)

\* A batch of two pairs was removed, one of them stored under both endpoints
\* before the call.
C8_Witness ==
  /\ AfterRemove
  /\ Len(lastCall.edges) = 2
  /\ \E i \in 1..2 : IsStored(before.activeEdges, lastCall.edges[i])

\* C9: after removeActiveEdges(batch), the connections map has no entry whose key
\* is the left or the right component of a pair of the batch.
C9_RemoveInvalidatesCache ==
  AfterRemove =>
    \A i \in 1..Len(lastCall.edges) :
      /\ lastCall.edges[i][1] \notin DOMAIN connections
      /\ lastCall.edges[i][2] \notin DOMAIN connections

\* The cache had entries for both endpoints of a removed pair, and another entry
\* is still there.
C9_Witness ==
  /\ AfterRemove
  /\ \E i \in 1..Len(lastCall.edges) :
       /\ lastCall.edges[i][1] \in DOMAIN before.connections
       /\ lastCall.edges[i][2] \in DOMAIN before.connections
       /\ lastCall.edges[i][1] # lastCall.edges[i][2]
  /\ DOMAIN connections # {}

\* C10: the connections map after addActiveEdges(batch) has the keys and values
\* it had before the call.
C10_AddKeepsCache ==
  AfterAdd => connections = before.connections

\* Pairs were added whose endpoints have cache entries.
C10_Witness ==
  /\ AfterAdd
  /\ activeEdges # before.activeEdges
  /\ \E i \in 1..Len(lastCall.edges) :
       /\ lastCall.edges[i][1] \in DOMAIN connections
       /\ lastCall.edges[i][2] \in DOMAIN connections

\* The call that produced the current state, by kind.
AfterOverlaySetter ==
  lastCall.op \in {"setSelectedNodes", "setHighlightedNodes", "setManuallySelectedColumn"}

AfterEdgeHandler == lastCall.op \in {"addActiveEdges", "removeActiveEdges"}

\* C11: setSelectedNodes, setHighlightedNodes and setManuallySelectedColumn
\* leave the active-edge index as it was, and addActiveEdges and
\* removeActiveEdges leave the selection set, the highlight mapping and the
\* manually selected column as they were.
C11_SelectionEdgeIndependence ==
  [][/\ AfterOverlaySetter' => activeEdges' = activeEdges
     /\ AfterEdgeHandler' =>
          /\ selectedNodes' = selectedNodes
          /\ highlightedNodes' = highlightedNodes
          /\ manuallySelectedColumn' = manuallySelectedColumn]_vars

\* An add changed the index while a selection, a highlight and a manually
\* selected column were all in place.
C11_Witness ==
  /\ AfterAdd
  /\ activeEdges # before.activeEdges
  /\ selectedNodes.items # <<>>
  /\ highlightedNodes # EmptyMap
  /\ manuallySelectedColumn.defined

\* The two connectors of a column.
ConnectorsOf(modelName, columnName) ==
  {toID(side, modelName, columnName) : side \in Sides}

C13_NeverInsertedIsInactive ==
  \A modelName \in ColumnModels, columnName \in ColumnNames :
    ConnectorsOf(modelName, columnName) \cap everAdded = {}
      => ~isActiveColumn(activeEdges, modelName, columnName)

\* A removal named a connector that no add had named: the connector is now a
\* key of the index.
C13_Witness ==
  /\ AfterRemove
  /\ \E modelName \in ColumnModels, columnName \in ColumnNames :
       /\ ConnectorsOf(modelName, columnName) \cap everAdded = {}
       /\ \E connector \in ConnectorsOf(modelName, columnName) :
            /\ connector \in Endpoints(lastCall.edges)
            /\ connector \in DOMAIN activeEdges

\* The (side, model, column) triples.
Triples == Sides \X ColumnModels \X ColumnNames

C14_ConnectedNodesIsKeySet == connectedNodes.value = DOMAIN nodesConnections.entries

\* A record with keys was supplied, and an edge, cache or selection call came
\* after it.
C14_Witness ==
  /\ lastCall.op \in {"addActiveEdges", "removeActiveEdges", "setConnections",
                      "setSelectedNodes"}
  /\ connectedNodes.value = {"A"}

\* The lists of the selected ids one after another, an id without an entry
\* giving nothing.
RECURSIVE ConcatEntries(_, _)
ConcatEntries(entries, ids) ==
  IF ids = <<>> THEN <<>>
  ELSE GetOrEmpty(entries, Head(ids)) \o ConcatEntries(entries, Tail(ids))

\* C15: in every reachable state, selectedEdges is the concatenation, over the
\* selected ids in insertion order, of nodesConnections[id], each list in its
\* own order.
C15_SelectedEdgesIsConcatenation ==
  selectedEdges.value = ConcatEntries(nodesConnections.entries, selectedNodes.items)

\* C16: every element of selectedEdges is an element of some list held in
\* nodesConnections: a selected id without an entry adds no element.
C16_MissingNodeContributesNothing ==
  \A i \in 1..Len(selectedEdges.value) :
    \E id \in DOMAIN nodesConnections.entries :
      \E j \in 1..Len(nodesConnections.entries[id]) :
        selectedEdges.value[i] = nodesConnections.entries[id][j]

\* C17: a step replaces the connectedNodes instance only if it replaces the
\* nodesConnections object, and the selectedEdges instance only if it replaces
\* the nodesConnections or the selectedNodes object; addActiveEdges,
\* removeActiveEdges, setHighlightedNodes and setManuallySelectedColumn keep
\* both instances.
C17_Memoization ==
  [][/\ connectedNodes'.instance # connectedNodes.instance
          => nodesConnections'.ref # nodesConnections.ref
     /\ selectedEdges'.instance # selectedEdges.instance
          => \/ nodesConnections'.ref # nodesConnections.ref
             \/ selectedNodes'.ref # selectedNodes.ref
     /\ lastCall'.op \in {"addActiveEdges", "removeActiveEdges",
                          "setHighlightedNodes", "setManuallySelectedColumn"}
          => /\ connectedNodes'.instance = connectedNodes.instance
             /\ selectedEdges'.instance = selectedEdges.instance]_vars

\* A selection call replaced the selectedEdges instance (now computed once
\* more often than connectedNodes) over a non-empty nodesConnections.
C17_Witness ==
  /\ lastCall.op = "setSelectedNodes"
  /\ selectedEdges.instance # connectedNodes.instance
  /\ selectedEdges.value # <<>>
  /\ connectedNodes.value # {}

\* C18: the index the render makes of the calls queued in a turn (the index
\* itself once nothing is queued) is the one obtained by applying the batches
\* of all calls one after another, in call order, starting from the index
\* before the first call.
C18_DispatchOrder == processQueue(activeEdges, pendingActiveEdges) = inCallOrder

\* An add and then a remove were called in one turn and neither is rendered
\* yet; together they change the index.
C18_Witness ==
  /\ Len(pendingActiveEdges) >= 2
  /\ pendingActiveEdges[1].op = "addActiveEdges"
  /\ pendingActiveEdges[2].op = "removeActiveEdges"
  /\ ~pendingActiveEdges[2].applied
  /\ inCallOrder # activeEdges
  /\ \E k \in DOMAIN inCallOrder : inCallOrder[k] # <<>>

\* C19: no reader sees a removeActiveEdges call done on the index while cache
\* entries keyed by the endpoints of its batch are still there.
C19_RemoveIsAtomic ==
  \A i \in 1..Len(pendingActiveEdges) :
    (/\ pendingActiveEdges[i].op = "removeActiveEdges"
     /\ pendingActiveEdges[i].applied)
      => Endpoints(pendingActiveEdges[i].edges) \cap DOMAIN connections = {}

\* No pair of the batch is in the list of either of its endpoints.
NoneStored(m, edges) ==
  \A i \in 1..Len(edges) :
    ~StoredUnder(m, edges[i][1], edges[i]) /\ ~StoredUnder(m, edges[i][2], edges[i])

\* The two indexes give the same hasEdge and hasEdgeAtConnector answers.
SameAnswers(m1, m2) ==
  /\ \A p \in EdgePairs : hasActiveEdge(m1, p) = hasActiveEdge(m2, p)
  /\ \A c \in Connectors : hasActiveEdgeConnector(m1, c) = hasActiveEdgeConnector(m2, c)

\* C21: for every reachable index and every batch none of whose pairs is
\* stored in it, addActiveEdges(batch) followed by removeActiveEdges(batch)
\* gives the same hasEdge and hasEdgeAtConnector answers as the index itself.
C21_AddRemoveRoundTrip ==
  lastCall = NoCall =>
    \A edges \in Batches :
      NoneStored(activeEdges, edges) =>
        SameAnswers(removeActiveEdgesUpdater(addActiveEdgesUpdater(activeEdges, edges),
                                             edges),
                    activeEdges)

\* The pairs of a batch without the repeats, in the order of first occurrence.
RECURSIVE FirstOccurrences(_)
FirstOccurrences(edges) ==
  IF edges = <<>> THEN <<>>
  ELSE LET front == FirstOccurrences(SubSeq(edges, 1, Len(edges) - 1))
           last == edges[Len(edges)]
       IN IF Contains(front, last) THEN front ELSE Append(front, last)

\* The pairs of the batch that are new to the list under key k, once each.
RECURSIVE NewUnder(_, _, _)
NewUnder(k, old, edges) ==
  IF edges = <<>> THEN <<>>
  ELSE LET p == Head(edges)
           rest == NewUnder(k, old, Tail(edges))
       IN IF (p[1] = k \/ p[2] = k) /\ ~Contains(old, p) THEN <<p>> \o rest ELSE rest

\* C22: after addActiveEdges(batch) the list under every key is the list it
\* was before followed by the pairs of the batch that name the key and were
\* not in it, each once, in the order of their first occurrence in the batch.
C22_BatchOrderAndIdempotence ==
  AfterAdd =>
    /\ DOMAIN activeEdges = DOMAIN before.activeEdges \cup Endpoints(lastCall.edges)
    /\ \A k \in DOMAIN activeEdges :
         activeEdges[k] =
           GetOrEmpty(before.activeEdges, k)
             \o NewUnder(k, GetOrEmpty(before.activeEdges, k),
                         FirstOccurrences(lastCall.edges))

\* Every container of the provider is empty and no column is active.
AllEmpty ==
  /\ activeEdges = EmptyMap
  /\ connections = EmptyMap
  /\ selectedNodes.items = <<>>
  /\ activeNodes = {}
  /\ highlightedNodes = EmptyMap
  /\ nodesConnections.entries = EmptyMap
  /\ connectedNodes.value = {}
  /\ selectedEdges.value = <<>>
  /\ ~manuallySelectedColumn.defined
  /\ \A modelName \in ColumnModels, columnName \in ColumnNames :
       ~isActiveColumn(activeEdges, modelName, columnName)

\* C23: when the provider mounts, the index, the cache, the selection, the
\* active nodes, the highlights, nodesConnections, connectedNodes and
\* selectedEdges are empty, the manually selected column is undefined and no
\* column is active; and they stay so until a setter or a handler is called.
C23_InitialState ==
  /\ AllEmpty
  /\ [][AllEmpty /\ ~AllEmpty' => lastCall'.op # "none"]_vars

\* The provider as mounted: nothing was called yet.
C23_Witness ==
  /\ AllEmpty
  /\ lastCall = NoCall
  /\ selectedNodes.ref = 0
  /\ nodesConnections.ref = 0
  /\ everAdded = {}

\* C24: in every state reached by addActiveEdges and removeActiveEdges, each
\* pair (l, r) in the list under a key k has l = k or r = k.
C24_EntriesIncidentToKey ==
  \A k \in DOMAIN activeEdges : \A i \in 1..Len(activeEdges[k]) :
    activeEdges[k][i][1] = k \/ activeEdges[k][i][2] = k

\* A removal wrote the lists of two different keys and left a pair standing.
C24_Witness ==
  /\ AfterRemove
  /\ \E i \in 1..Len(lastCall.edges) : lastCall.edges[i][1] # lastCall.edges[i][2]
  /\ \E k \in Endpoints(lastCall.edges) : activeEdges[k] # <<>>

\* s can be had from t by leaving entries out.
RECURSIVE IsSubSeq(_, _)
IsSubSeq(s, t) ==
  IF s = <<>> THEN TRUE
  ELSE IF t = <<>> THEN FALSE
  ELSE IF Head(s) = Head(t) THEN IsSubSeq(Tail(s), Tail(t))
  ELSE IsSubSeq(s, Tail(t))

\* C25: after removeActiveEdges(batch) the list under every key is a
\* sub-sequence of the list that was under it before: nothing is added and
\* the pairs that stay keep their order.
C25_RemoveOnlyRemoves ==
  AfterRemove =>
    \A k \in DOMAIN activeEdges :
      IsSubSeq(activeEdges[k], GetOrEmpty(before.activeEdges, k))

\* A removal took a pair out of a list and left two others in it.
C25_Witness ==
  /\ AfterRemove
  /\ \E k \in DOMAIN before.activeEdges :
       /\ Len(activeEdges[k]) >= 2
       /\ Len(activeEdges[k]) < Len(before.activeEdges[k])
       /\ activeEdges[k][1] # activeEdges[k][2]

\* C26: no call makes the key set of the index smaller, and after
\* removeActiveEdges(batch) every endpoint the batch names is a key, its list
\* possibly empty, also when no add ever named it.
C26_KeySetNeverShrinks ==
  /\ lastCall # NoCall => DOMAIN before.activeEdges \subseteq DOMAIN activeEdges
  /\ AfterRemove => Endpoints(lastCall.edges) \subseteq DOMAIN activeEdges

\* A removal made a key of a connector that no add had named: a key with an
\* empty list and no incident edge anywhere in the index.
C26_Witness ==
  /\ AfterRemove
  /\ \E k \in Endpoints(lastCall.edges) \ everAdded :
       /\ k \notin DOMAIN before.activeEdges
       /\ k \in DOMAIN activeEdges
       /\ activeEdges[k] = <<>>
       /\ ~HasIncidentEdge(activeEdges, k)

\* C27: removeActiveEdges(batch) leaves every connections entry whose key is
\* not a component of a pair of the batch in place with the value it had.
C27_InvalidationConfined ==
  AfterRemove =>
    \A k \in DOMAIN before.connections \ Endpoints(lastCall.edges) :
      k \in DOMAIN connections /\ connections[k] = before.connections[k]

\* A removal deleted a cache entry and another entry stayed.
C27_Witness ==
  /\ AfterRemove
  /\ DOMAIN before.connections \cap Endpoints(lastCall.edges) # {}
  /\ DOMAIN connections # {}

\* The ids of the errors in the collection.
IdsOf(collection) == {collection[i].id : i \in 1..Len(collection)}

\* C28: a step that changes the errors collection sends the router to the
\* detail route of the error added last among those left, or to the base
\* errors route when none is left; and handleDelete asked for an id that is
\* not in the list does not call removeError and changes nothing.
C28_NavigationFollowsErrors ==
  [][/\ errors' # errors =>
          route' = IF errors' = <<>> THEN RouteErrors
                   ELSE RouteErrors \o "/" \o errors'[Len(errors')].id
     /\ (lastDelete' # lastDelete /\ lastDelete'.id \notin IdsOf(errors)) =>
          ~lastDelete'.removed /\ errors' = errors /\ route' = route]_vars

\* handleDelete was asked for an id that is not in a list of two errors, the
\* router being at the detail route of the newer one.
C28_Witness ==
  /\ Len(errors) = 2
  /\ lastDelete.id \in ErrorIds \ IdsOf(errors)
  /\ ~lastDelete.removed
  /\ route = RouteErrors \o "/" \o errors[2].id

====
